---- MODULE Spec2Model ----
(***************************************************************************)
(* A model of the command-line chat session of gpt_client.py: the Cmd      *)
(* read loop, CmdLineInterpreter.default (exit tokens, multi-line entry),   *)
(* generate_response (tag scan, compose, submit), get_url_contents (fetch,  *)
(* size cap, truncation prompt) and submit_to_gpt (completion call and its  *)
(* except clauses).                                                         *)
(*                                                                          *)
(* Text is a sequence of one-character strings, so that str.replace,        *)
(* str.strip, the `in` test, slicing and the regular-expression search of   *)
(* the link tag are computed character by character as Python does.        *)
(***************************************************************************)
EXTENDS Integers, Sequences, FiniteSets, TLC

VARIABLES
    phase,        \* where the session is blocked: "Idle" (Cmd prompt), "Multi"
                  \* (input() of the multi-line loop), "Confirm" (input() of the
                  \* truncation prompt), "Exited" (cmdloop returned)
    messages,     \* self.messages, the transcript
    line,         \* default(): the text accumulated so far in multi-line mode
    input,        \* generate_response(): the message left after tag removal
    webpagetext,  \* get_url_contents(): <<>> for None, <<text>> otherwise
    reads,        \* number of lines read from the terminal so far
    typed,        \* history: the lines read this turn by cmdloop and default
    answer,       \* history: <<answer>> read by the truncation prompt
    before,       \* history: the transcript when the current turn began
    arg,          \* history: <<text>> passed to generate_response this turn
    fetched,      \* history: <<url>> passed to get_url_contents this turn
    fetchout,     \* history: <<outcome>> of the page fetch made this turn
    prompted,     \* history: the truncation prompt was shown this turn
    called,       \* history: openai.ChatCompletion.create was called this turn
    svcout,       \* history: <<outcome>> of the create call made this turn
    submitted,    \* history: <<transcript>> given to the latest create call
    failedAt,     \* history: <<transcript>> left by the latest failed call
    event,        \* history: how the latest step ended
    printed,      \* history: the messages print()ed by the latest step
    allow_injections, \* the --allow_injections option of the session
    client,       \* web app: the browser session that made the latest call
    history,      \* web app: the history argument of the latest call
    owners        \* web app, history: for each turn after the first of the
                  \* transcript, the browser session whose call appended it

vars == <<phase, messages, line, input, webpagetext, reads, typed, answer,
          before, arg, fetched, fetchout, prompted, called, svcout, submitted,
          failedAt, event, printed, allow_injections, client, history,
          owners>>

\* ------------------------------------------------------------------------
\* Bounds of the model.
\* ------------------------------------------------------------------------

\* lines read from the terminal in one run
MaxReads == 3

\* the --maxchar value of the modelled session (the default is MAXCHAR)
maxchar == 3

\* ------------------------------------------------------------------------
\* Text literals.
\* ------------------------------------------------------------------------

\* SYSMESSAGE, first sentence (the rest of the constant is not needed)
SYSMESSAGE ==
    <<"T","h","e"," ","f","o","l","l","o","w","i","n","g"," ","i","s"," ",
      "a"," ","c","o","n","v","e","r","s","a","t","i","o","n"," ","w","i",
      "t","h"," ","a","n"," ","A","I"," ","a","s","s","i","s","t","a","n",
      "t",".">>

T_open == <<"<","<">>
T_close == <<">",">">>
T_multi == <<"<","<","m","u","l","t","i",">",">">>
T_end == <<"<","<","e","n","d",">",">">>
T_exit == <<"e","x","i","t">>
T_quit == <<"q","u","i","t">>
T_q == <<"q">>
T_EOF == <<"E","O","F">>
T_help == <<"h","e","l","p">>
T_y == <<"y">>
T_yes == <<"y","e","s">>
T_nl == <<"\n">>
T_space == <<" ">>

L_hi == <<"h","i">>
L_exit_now == <<"e","x","i","t"," ","n","o","w">>
L_qmark == <<"?">>
L_blank == <<" "," ">>
L_link ==
    <<"h","e","l","l","o"," ","<","<","h","t","t","p",":","/","/","x",">",
      ">"," ","w","o","r","l","d">>
L_link_msg == <<"h","e","l","l","o"," "," ","w","o","r","l","d">>
L_two ==
    <<"<","<","h","t","t","p",":","/","/","a",">",">","b","<","<","h","t",
      "t","p",":","/","/","c",">",">">>
L_tagonly == <<"<","<","h","t","t","p",":","/","/","x",">",">">>
L_empty_tag == <<"<","<",">",">">>
L_bad == <<"h","i"," ","<","<","x",">",">">>
L_multi1 == <<"<","<","m","u","l","t","i",">",">"," ","l","i","n","e","1">>
L_line2 == <<"l","i","n","e","2">>
L_end3 == <<"<","<","e","n","d",">",">"," ","l","i","n","e","3">>
L_multi_end ==
    <<"<","<","m","u","l","t","i",">",">","<","<","e","n","d",">",">">>
L_Yes == <<"Y","e","s">>
L_rev == <<">",">","x","<","<">>
M_example ==
    <<" ","l","i","n","e","1","\n","l","i","n","e","2","\n"," ","l","i","n",
      "e","3">>
M_claimed ==
    <<"l","i","n","e","1","\n","l","i","n","e","2","\n","l","i","n","e","3">>
U_x == <<"h","t","t","p",":","/","/","x">>

\* what BeautifulSoup(...).get_text() may return for a fetched page
PAGE_SHORT == <<"a","\n","b">>
PAGE_LONG == <<"a","b","c","d","\n">>
PageTexts == {PAGE_SHORT, PAGE_LONG}

\* what the completion service may reply
REPLY == <<"o","k">>
Replies == {REPLY}

\* the lines the operator may type at the prompt and in multi-line mode
InputLines ==
    {L_hi, T_exit, T_quit, T_q, L_exit_now, T_EOF, L_qmark, L_blank,
     L_link, L_two, L_tagonly, L_empty_tag, L_bad,
     L_multi1, L_line2, L_end3, L_multi_end, L_rev}

\* the answers the operator may give to the truncation prompt
AnswerLines == {T_y, L_Yes, L_hi, L_blank, T_exit, T_q}

\* ------------------------------------------------------------------------
\* Python string operations.
\* ------------------------------------------------------------------------

SetMin(S) == CHOOSE x \in S : \A y \in S : x <= y
SetMax(S) == CHOOSE x \in S : \A y \in S : x >= y

\* s[i-1:].startswith(p)
StartsAt(s, p, i) ==
    /\ i >= 1
    /\ i + Len(p) - 1 <= Len(s)
    /\ SubSeq(s, i, i + Len(p) - 1) = p

\* p in s
Contains(s, p) == \E i \in 1..(Len(s) + 1) : StartsAt(s, p, i)

\* s[:n] for n >= 0
Slice(s, n) == SubSeq(s, 1, IF n < Len(s) THEN n ELSE Len(s))

IsPrefix(s, t) == Len(s) <= Len(t) /\ SubSeq(t, 1, Len(s)) = s

RECURSIVE ReplaceFrom(_, _, _, _)
ReplaceFrom(s, old, new, i) ==
    IF i > Len(s) THEN <<>>
    ELSE IF StartsAt(s, old, i)
         THEN new \o ReplaceFrom(s, old, new, i + Len(old))
         ELSE <<s[i]>> \o ReplaceFrom(s, old, new, i + 1)

\* s.replace(old, new): leftmost, non-overlapping occurrences
str_replace(s, old, new) == ReplaceFrom(s, old, new, 1)

Whitespace == {" ", "\n", "\t", "\r"}

RECURSIVE lstrip(_)
lstrip(s) ==
    IF s # <<>> /\ Head(s) \in Whitespace THEN lstrip(Tail(s)) ELSE s

RECURSIVE rstrip(_)
rstrip(s) ==
    IF s # <<>> /\ s[Len(s)] \in Whitespace
    THEN rstrip(SubSeq(s, 1, Len(s) - 1))
    ELSE s

\* s.strip()
strip(s) == rstrip(lstrip(s))

UpperLetters ==
    <<"A","B","C","D","E","F","G","H","I","J","K","L","M","N","O","P","Q",
      "R","S","T","U","V","W","X","Y","Z">>
LowerLetters ==
    <<"a","b","c","d","e","f","g","h","i","j","k","l","m","n","o","p","q",
      "r","s","t","u","v","w","x","y","z">>
DigitChars == <<"0","1","2","3","4","5","6","7","8","9">>

lower_char(c) ==
    IF \E k \in 1..26 : UpperLetters[k] = c
    THEN LowerLetters[CHOOSE k \in 1..26 : UpperLetters[k] = c]
    ELSE c

\* s.lower()
lower(s) == [i \in 1..Len(s) |-> lower_char(s[i])]

RECURSIVE str_int(_)
\* str(n) for n >= 0
str_int(n) ==
    IF n < 10 THEN <<DigitChars[n + 1]>>
    ELSE str_int(n \div 10) \o <<DigitChars[(n % 10) + 1]>>

\* ------------------------------------------------------------------------
\* The link-tag pattern of generate_response: "<<", any run of characters
\* other than newline taken greedily, ">>".
\* ------------------------------------------------------------------------

\* positions of a ">>" that can close a match opened by the "<<" at i
MatchEnds(s, i) ==
    { j \in (i + 2)..Len(s) :
        /\ StartsAt(s, T_close, j)
        /\ \A k \in (i + 2)..(j - 1) : s[k] # "\n" }

\* positions at or after from where the pattern matches
MatchStarts(s, from) ==
    { i \in from..Len(s) : StartsAt(s, T_open, i) /\ MatchEnds(s, i) # {} }

\* re.search with the closing marker left out of the pattern
re_search_unclosed(s) ==
    LET opens == { i \in 1..Len(s) : StartsAt(s, T_open, i) }
    IN  IF opens = {} THEN <<>>
        ELSE LET i == SetMin(opens)
                 stops == { k \in (i + 2)..Len(s) : s[k] = "\n" }
                 j == IF stops = {} THEN Len(s) + 1 ELSE SetMin(stops)
             IN  <<[start |-> i, close |-> j, group1 |-> SubSeq(s, i + 2, j - 1)]>>

\* re.search: <<>> for None, else the leftmost match, its group as long as
\* the greedy star allows
re_search(s) ==
    IF MatchStarts(s, 1) = {} THEN <<>>
    ELSE LET i == SetMin(MatchStarts(s, 1))
             j == SetMax(MatchEnds(s, i))
         IN  <<[start |-> i, close |-> j, group1 |-> SubSeq(s, i + 2, j - 1)]>>

RECURSIVE SubFrom(_, _)
SubFrom(s, from) ==
    IF MatchStarts(s, from) = {} THEN SubSeq(s, from, Len(s))
    ELSE LET i == SetMin(MatchStarts(s, from))
             j == SetMax(MatchEnds(s, i))
         IN  SubSeq(s, from, i - 1) \o SubFrom(s, j + 2)

\* re.sub(pattern, "", s): every non-overlapping match removed
re_sub(s) == SubFrom(s, 1)

\* ------------------------------------------------------------------------
\* cmd.Cmd: parseline and the dispatch of onecmd.
\* ------------------------------------------------------------------------

identchars ==
    {UpperLetters[k] : k \in 1..26} \cup {LowerLetters[k] : k \in 1..26}
      \cup {DigitChars[k] : k \in 1..10} \cup {"_"}

RECURSIVE IdentLen(_)
\* length of the leading run of identchars
IdentLen(s) ==
    IF s # <<>> /\ Head(s) \in identchars THEN 1 + IdentLen(Tail(s)) ELSE 0

\* Cmd.parseline; nocmd stands for the returned cmd being None
parseline(l) ==
    LET stripped == strip(l)
    IN  IF stripped = <<>>
        THEN [nocmd |-> TRUE, cmd |-> <<>>, arg |-> <<>>, line |-> stripped]
        ELSE IF Head(stripped) = "!"
        THEN [nocmd |-> TRUE, cmd |-> <<>>, arg |-> <<>>, line |-> stripped]
        ELSE LET full == IF Head(stripped) = "?"
                         THEN T_help \o T_space \o Tail(stripped)
                         ELSE stripped
                 n == IdentLen(full)
             IN  [nocmd |-> FALSE,
                  cmd |-> SubSeq(full, 1, n),
                  arg |-> strip(SubSeq(full, n + 1, Len(full))),
                  line |-> full]

\* Cmd.onecmd: the method that handles the line
onecmd(l) ==
    LET p == parseline(l)
    IN  IF p.line = <<>> THEN "emptyline"
        ELSE IF p.nocmd \/ p.cmd = <<>> THEN "default"
        ELSE IF p.cmd = T_exit THEN "do_exit"
        ELSE IF p.cmd = T_EOF THEN "do_EOF"
        ELSE IF p.cmd = T_help THEN "do_help"
        ELSE "default"

\* ------------------------------------------------------------------------
\* get_url_contents: the page fetch and the size cap.
\* ------------------------------------------------------------------------

\* urllib.request.Request(url) raises ValueError("unknown url type") unless
\* the url starts with a non-empty scheme, free of "/" and ":", and a ":"
HasUrlType(url) ==
    \E i \in 2..Len(url) :
        /\ url[i] = ":"
        /\ \A k \in 1..(i - 1) : url[k] \notin {"/", ":"}

\* what urlopen(...).read() and get_text() can do
FetchErrors == {"HTTPError", "URLError", "Exception"}
FetchOutcomes ==
    {[exc |-> e, text |-> <<>>] : e \in FetchErrors \cup {"KeyboardInterrupt"}}
      \cup {[exc |-> "none", text |-> t] : t \in PageTexts}

\* the try block with a Request(url) that accepts any text: the fetch is
\* made for every address
fetch_results_unchecked(url) == FetchOutcomes

\* the outcomes of the try block up to the length test: Request(url)
\* raises ValueError, caught by the last except clause, or the fetch is made
fetch_results(url) ==
    IF HasUrlType(url) THEN FetchOutcomes
    ELSE {[exc |-> "Exception", text |-> <<>>]}

\* the message printed by the except clause that catches exc
fetch_message(exc) ==
    IF exc = "HTTPError" THEN "Sorry, HTTP error"
    ELSE IF exc = "URLError" THEN "Sorry, URL error"
    ELSE "Unexpected e"

\* webpagetext.replace("\n", " ")
flatten(text) == str_replace(text, T_nl, T_space)

\* the f-string of the truncation notice; the float it prints is kept as one
\* symbol, its digits are not modelled
P_head ==
    <<"G","P","T"," ","p","l","e","a","s","e"," ","n","o","t","e"," ","t",
      "h","a","t"," ","d","u","e"," ","t","o"," ","l","e","n","g","t","h",
      ","," ","w","e","b","p","a","g","e"," ","t","r","u","n","c","a","t",
      "e","d"," ","t","o"," ","f","i","r","s","t"," ">>
P_mid ==
    <<" ","c","h","a","r","a","c","t","e","r","s",",","a","b","o","u","t",
      " ">>
P_tail ==
    <<"%",","," ","w","h","i","c","h"," ","m","a","y"," ","a","f","f","e",
      "c","t"," ","y","o","u","r"," ","i","n","t","e","r","p","r","e","t",
      "a","t","i","o","n"," ","o","f"," ","i","t",":","\n","-","-","-","-",
      "-","-","-","-","-","-","-","-","-","-","-","-","-","-","\n">>
P_float == <<"{maxchar/orig_length_webpagetext*100.0}">>

preamble(cap) == P_head \o str_int(cap) \o P_mid \o P_float \o P_tail

\* the text returned when the operator accepts the truncation
truncated(text, cap) == Slice(preamble(cap) \o text, cap)

\* the test on the operator's answer to the truncation prompt
accepts(user_input) == lower(user_input) = T_y \/ lower(user_input) = T_yes

\* ------------------------------------------------------------------------
\* submit_to_gpt: the completion call and its except clauses.
\* ------------------------------------------------------------------------

Turn(role, content) == [role |-> role, content |-> content]

\* the classes of openai.error that the except clauses name, all derived
\* from OpenAIError; "OpenAIError" stands for every other one
OpenAIErrors ==
    {"OpenAIError", "APIConnectionError", "ServiceUnavailableError",
     "RateLimitError", "InvalidRequestError", "Timeout"}

\* the classes an exception of class c is an instance of
Bases(c) ==
    IF c = "KeyboardInterrupt" THEN {c, "BaseException"}
    ELSE IF c \in OpenAIErrors
         THEN {c, "OpenAIError", "Exception", "BaseException"}
         ELSE {c, "Exception", "BaseException"}

\* the except clauses, in the order they are written
ExceptClauses ==
    <<[cls |-> "OpenAIError", msg |-> "OpenAI API Error"],
      [cls |-> "APIConnectionError",
       msg |-> "Sorry, wasn't able to connect to API for some reason"],
      [cls |-> "ServiceUnavailableError",
       msg |-> "Sorry, API appears to be temporarily unavailable"],
      [cls |-> "RateLimitError", msg |-> "Sorry, hit a too-many-users limit"],
      [cls |-> "InvalidRequestError",
       msg |-> "Sorry, hit a too-long-submission limit"],
      [cls |-> "Timeout", msg |-> "Sorry, request apparently timed out"],
      [cls |-> "Exception", msg |-> "An error occurred"]>>

\* the first clause that catches an exception of class c, 0 if none does
caught_by(c) ==
    LET ks == { k \in 1..Len(ExceptClauses) : ExceptClauses[k].cls \in Bases(c) }
    IN  IF ks = {} THEN 0 ELSE SetMin(ks)

\* what openai.ChatCompletion.create can do: return a reply, or raise; attr
\* tells whether the exception carries the attribute the clause reads
\* (e.response in the first clause, e.reason in the next five)
ServiceOutcomes ==
    {[exc |-> "none", reply |-> r, attr |-> TRUE] : r \in Replies}
      \cup {[exc |-> c, reply |-> <<>>, attr |-> a] :
                c \in OpenAIErrors, a \in BOOLEAN}
      \cup {[exc |-> c, reply |-> <<>>, attr |-> TRUE] :
                c \in {"Exception", "KeyboardInterrupt"}}

\* submit_to_gpt with the append placed after the try block: a failed call
\* records an empty assistant turn
submit_to_gpt_appends_always(msgs, svc) ==
    IF svc.exc = "none"
    THEN [messages |-> Append(msgs, Turn("assistant", svc.reply)),
          ret |-> "pair", raised |-> "none", printed |-> <<>>]
    ELSE LET k == caught_by(svc.exc)
         IN  IF k = 0
             THEN [messages |-> msgs, ret |-> "raise",
                   raised |-> svc.exc, printed |-> <<>>]
             ELSE IF k < Len(ExceptClauses) /\ ~svc.attr
             THEN [messages |-> msgs, ret |-> "raise",
                   raised |-> "AttributeError", printed |-> <<>>]
             ELSE [messages |-> Append(msgs, Turn("assistant", <<>>)),
                   ret |-> "empty",
                   raised |-> "none", printed |-> <<ExceptClauses[k].msg>>]

\* submit_to_gpt: ret is "pair" for (reply, metadata), "empty" for the ""
\* of the except clauses, "raise" when an exception leaves the function
submit_to_gpt(msgs, svc) ==
    IF svc.exc = "none"
    THEN [messages |-> Append(msgs, Turn("assistant", svc.reply)),
          ret |-> "pair", raised |-> "none", printed |-> <<>>]
    ELSE LET k == caught_by(svc.exc)
         IN  IF k = 0
             THEN [messages |-> msgs, ret |-> "raise",
                   raised |-> svc.exc, printed |-> <<>>]
             ELSE IF k < Len(ExceptClauses) /\ ~svc.attr
             THEN [messages |-> msgs, ret |-> "raise",
                   raised |-> "AttributeError", printed |-> <<>>]
             ELSE [messages |-> msgs, ret |-> "empty",
                   raised |-> "none", printed |-> <<ExceptClauses[k].msg>>]

\* ------------------------------------------------------------------------
\* generate_response and CmdLineInterpreter, as functions of the state.
\* ------------------------------------------------------------------------

\* the state as a record (reads is counted by the actions)
State ==
    [phase |-> phase, messages |-> messages, line |-> line, input |-> input,
     webpagetext |-> webpagetext, typed |-> typed, answer |-> answer,
     before |-> before,
     arg |-> arg, fetched |-> fetched, fetchout |-> fetchout,
     prompted |-> prompted, called |-> called, svcout |-> svcout,
     submitted |-> submitted, failedAt |-> failedAt, event |-> event,
     printed |-> printed]

\* a new line arrives at the Cmd prompt: a new turn begins
begin_turn(s) ==
    [s EXCEPT !.before = s.messages, !.typed = <<>>, !.answer = <<>>,
              !.arg = <<>>,
              !.fetched = <<>>, !.fetchout = <<>>,
              !.prompted = FALSE, !.called = FALSE, !.svcout = <<>>,
              !.input = <<>>,
              !.webpagetext = <<>>, !.line = <<>>, !.printed = <<>>]

\* do_exit: cmdloop stops
do_exit(s, how) ==
    [s EXCEPT !.phase = "Exited", !.event = how,
              !.printed = <<"Ok, goodbye...">>]

\* generate_response appending to a list made anew for the call instead of
\* the list of the session
compose_from_system(msgs, inp, web) ==
    LET fresh == <<Turn("system", SYSMESSAGE)>>
    IN  IF inp # <<>>
        THEN IF web # <<>>
             THEN fresh \o <<Turn("user", inp), Turn("user", web[1])>>
             ELSE Append(fresh, Turn("user", inp))
        ELSE fresh

\* generate_response, lines 224-227
compose(msgs, inp, web) ==
    IF inp # <<>>
    THEN IF web # <<>>
         THEN msgs \o <<Turn("user", inp), Turn("user", web[1])>>
         ELSE Append(msgs, Turn("user", inp))
    ELSE msgs

\* generate_response without the try around the call of submit_to_gpt: what
\* the call raises, and the failed unpacking of "", leave cmdloop
submitted_turn_uncaught(s, inp, web, svc) ==
    LET composed == compose(s.messages, inp, web)
        r == submit_to_gpt(composed, svc)
        interrupted == r.ret = "raise" /\ "Exception" \notin Bases(r.raised)
    IN  [s EXCEPT
           !.messages = r.messages,
           !.input = inp,
           !.webpagetext = web,
           !.line = <<>>,
           !.called = TRUE,
           !.svcout = <<svc>>,
           !.submitted = <<composed>>,
           !.failedAt = IF r.ret = "pair" \/ interrupted
                        THEN @ ELSE <<r.messages>>,
           !.phase = IF r.ret = "pair" THEN "Idle" ELSE "Exited",
           !.event = IF r.ret = "pair" THEN "ok"
                     ELSE IF interrupted THEN "interrupt"
                     ELSE "service_failed",
           !.printed = r.printed]

\* generate_response, lines 221-246 when skip_input is False, for one
\* outcome of the completion call
submitted_turn(s, inp, web, svc) ==
    LET composed == compose(s.messages, inp, web)
        r == submit_to_gpt(composed, svc)
        interrupted == r.ret = "raise" /\ "Exception" \notin Bases(r.raised)
    IN  [s EXCEPT
           !.messages = r.messages,
           !.input = inp,
           !.webpagetext = web,
           !.line = <<>>,
           !.called = TRUE,
           !.svcout = <<svc>>,
           !.submitted = <<composed>>,
           !.failedAt = IF r.ret = "pair" \/ interrupted
                        THEN @ ELSE <<r.messages>>,
           !.phase = IF interrupted THEN "Exited" ELSE "Idle",
           !.event = IF r.ret = "pair" THEN "ok"
                     ELSE IF interrupted THEN "interrupt"
                     ELSE "service_failed",
           !.printed = r.printed \o
                       (IF r.ret = "pair" THEN <<>>
                        ELSE IF interrupted THEN <<"Ok, goodbye...">>
                        ELSE <<"Error from submit_to_gpt()">>)]

\* generate_response, lines 221-246 when skip_input is False
finish_turn(s, inp, web) ==
    { submitted_turn(s, inp, web, svc) : svc \in ServiceOutcomes }

\* generate_response when skip_input is True: nothing is done
skip_turn(s, inp, web, how, out) ==
    [s EXCEPT !.input = inp, !.webpagetext = web, !.line = <<>>,
              !.phase = "Idle", !.event = how, !.printed = out]

\* get_url_contents asking for confirmation from the cap on, not above it
after_fetch_cap_inclusive(s, msg, r) ==
    IF r.exc = "KeyboardInterrupt" THEN {do_exit(s, "interrupt")}
    ELSE IF r.exc # "none"
    THEN {skip_turn(s, msg, <<>>, "fetch_failed", <<fetch_message(r.exc)>>)}
    ELSE IF Len(flatten(r.text)) >= maxchar
    THEN {[s EXCEPT !.phase = "Confirm", !.input = msg,
                    !.webpagetext = <<flatten(r.text)>>,
                    !.prompted = TRUE, !.event = "prompt",
                    !.printed = <<"Warning: length of webpagetext">>]}
    ELSE finish_turn(s, msg, <<flatten(r.text)>>)

\* get_url_contents with skip_input left False in the URLError clause
after_fetch_urlerror_goes_on(s, msg, r) ==
    IF r.exc = "KeyboardInterrupt" THEN {do_exit(s, "interrupt")}
    ELSE IF r.exc = "URLError" THEN finish_turn(s, msg, <<>>)
    ELSE IF r.exc # "none"
    THEN {skip_turn(s, msg, <<>>, "fetch_failed", <<fetch_message(r.exc)>>)}
    ELSE IF Len(flatten(r.text)) > maxchar
    THEN {[s EXCEPT !.phase = "Confirm", !.input = msg,
                    !.webpagetext = <<flatten(r.text)>>,
                    !.prompted = TRUE, !.event = "prompt",
                    !.printed = <<"Warning: length of webpagetext">>]}
    ELSE finish_turn(s, msg, <<flatten(r.text)>>)

\* get_url_contents up to the truncation prompt, and what generate_response
\* does with its result, for one outcome r of the fetch
after_fetch(s, msg, r) ==
    IF r.exc = "KeyboardInterrupt" THEN {do_exit(s, "interrupt")}
    ELSE IF r.exc # "none"
    THEN {skip_turn(s, msg, <<>>, "fetch_failed", <<fetch_message(r.exc)>>)}
    ELSE IF Len(flatten(r.text)) > maxchar
    THEN {[s EXCEPT !.phase = "Confirm", !.input = msg,
                    !.webpagetext = <<flatten(r.text)>>,
                    !.prompted = TRUE, !.event = "prompt",
                    !.printed = <<"Warning: length of webpagetext">>]}
    ELSE finish_turn(s, msg, <<flatten(r.text)>>)

\* generate_response up to the truncation prompt of get_url_contents: the
\* states it can lead to
generate_response(s, inp) ==
    LET m == re_search(inp)
        s1 == [s EXCEPT !.arg = <<inp>>, !.line = <<>>]
    IN  IF m = <<>> THEN finish_turn(s1, inp, <<>>)
        ELSE LET msg == re_sub(inp)
                 url == m[1].group1
                 s2 == [s1 EXCEPT !.fetched = <<url>>, !.input = msg]
             IN  UNION { after_fetch([s2 EXCEPT !.fetchout = <<r>>], msg, r) :
                           r \in fetch_results(url) }

\* get_url_contents setting skip_input on no answer: the text is truncated
\* and the turn goes on whatever the operator answers
confirm_any_answer(s, a) ==
    finish_turn(s, s.input, <<truncated(s.webpagetext[1], maxchar)>>)

\* get_url_contents from the answer to the truncation prompt, then the rest
\* of generate_response
confirm(s, a) ==
    IF accepts(a)
    THEN finish_turn(s, s.input, <<truncated(s.webpagetext[1], maxchar)>>)
    ELSE {skip_turn(s, s.input, s.webpagetext, "declined", <<>>)}

\* default with the bare q missing from the exit test
default_without_q(s, l) ==
    IF l = T_exit \/ l = T_quit THEN {do_exit(s, "exit_token")}
    ELSE IF Contains(l, T_multi)
    THEN {[s EXCEPT !.phase = "Multi", !.event = "multi",
                    !.line = str_replace(l, T_multi, <<>>)]}
    ELSE generate_response(s, l)

\* CmdLineInterpreter.default up to the first input() of multi-line mode
default(s, l) ==
    IF l = T_exit \/ l = T_quit \/ l = T_q THEN {do_exit(s, "exit_token")}
    ELSE IF Contains(l, T_multi)
    THEN {[s EXCEPT !.phase = "Multi", !.event = "multi",
                    !.line = str_replace(l, T_multi, <<>>)]}
    ELSE generate_response(s, l)

\* the multi-line loop with the <<end>> marker left in the last line
multi_line_keeps_end(s, next_line) ==
    IF Contains(next_line, T_end)
    THEN generate_response(
             s, s.line \o T_nl \o str_replace(next_line, T_multi, <<>>))
    ELSE {[s EXCEPT !.event = "multi", !.printed = <<>>,
                    !.line = str_replace(
                        s.line \o T_nl \o str_replace(next_line, T_multi, <<>>),
                        T_multi, <<>>)]}

\* one round of the multi-line loop, from the line input() returned
multi_line(s, next_line) ==
    IF Contains(next_line, T_end)
    THEN generate_response(
             s,
             s.line \o T_nl \o
               str_replace(str_replace(next_line, T_end, <<>>), T_multi, <<>>))
    ELSE {[s EXCEPT !.event = "multi", !.printed = <<>>,
                    !.line = str_replace(
                        s.line \o T_nl \o str_replace(next_line, T_multi, <<>>),
                        T_multi, <<>>)]}

\* Cmd.onecmd for a line read at the prompt
cmd_line(s, l) ==
    LET h == onecmd(l)
    IN  IF h = "emptyline" THEN {[s EXCEPT !.event = "emptyline"]}
        ELSE IF h = "do_help" THEN {[s EXCEPT !.event = "do_help"]}
        ELSE IF h = "do_exit" \/ h = "do_EOF" THEN {do_exit(s, h)}
        ELSE default(s, parseline(l).line)

\* ------------------------------------------------------------------------
\* The state machine.
\* ------------------------------------------------------------------------

Apply(s) ==
    /\ phase' = s.phase
    /\ messages' = s.messages
    /\ line' = s.line
    /\ input' = s.input
    /\ webpagetext' = s.webpagetext
    /\ typed' = s.typed
    /\ answer' = s.answer
    /\ before' = s.before
    /\ arg' = s.arg
    /\ fetched' = s.fetched
    /\ fetchout' = s.fetchout
    /\ prompted' = s.prompted
    /\ called' = s.called
    /\ svcout' = s.svcout
    /\ submitted' = s.submitted
    /\ failedAt' = s.failedAt
    /\ event' = s.event
    /\ printed' = s.printed

\* the default of the --allow_injections option
ALLOW_INJECTIONS == TRUE

\* CmdLineInterpreter.__init__, called with allow_injections = flag and the
\* other options as the bounds of the model set them
InitWith(flag) ==
    /\ phase = "Idle"
    /\ messages = <<Turn("system", SYSMESSAGE)>>
    /\ line = <<>>
    /\ input = <<>>
    /\ webpagetext = <<>>
    /\ reads = 0
    /\ typed = <<>>
    /\ answer = <<>>
    /\ before = <<Turn("system", SYSMESSAGE)>>
    /\ arg = <<>>
    /\ fetched = <<>>
    /\ fetchout = <<>>
    /\ prompted = FALSE
    /\ called = FALSE
    /\ svcout = <<>>
    /\ submitted = <<>>
    /\ failedAt = <<>>
    /\ event = "start"
    /\ printed = <<>>
    /\ allow_injections = flag
    /\ client = 0
    /\ history = <<>>
    /\ owners = <<>>

\* the session started with the default options
Init == InitWith(ALLOW_INJECTIONS)

\* Cmd.cmdloop reads a line at the prompt and runs onecmd on it
CmdLoopRead(l) ==
    /\ phase = "Idle"
    /\ reads < MaxReads
    /\ reads' = reads + 1
    /\ \E s \in cmd_line([begin_turn(State) EXCEPT !.typed = <<l>>], l) :
           Apply(s)
    /\ UNCHANGED <<allow_injections, client, history, owners>>

\* input() at the prompt raises EOFError: Cmd.cmdloop runs do_EOF
CmdLoopEOF ==
    /\ phase = "Idle"
    /\ reads' = reads
    /\ Apply(do_exit(begin_turn(State), "eof"))
    /\ UNCHANGED <<allow_injections, client, history, owners>>

\* input() in the multi-line loop returns a line
MultiRead(l) ==
    /\ phase = "Multi"
    /\ reads < MaxReads
    /\ reads' = reads + 1
    /\ \E s \in multi_line([State EXCEPT !.typed = Append(typed, l)], l) :
           Apply(s)
    /\ UNCHANGED <<allow_injections, client, history, owners>>

\* input() in the multi-line loop raises EOFError: it leaves default and
\* Cmd.cmdloop, and CmdLineInterpreter.cmdloop runs do_exit
MultiEOF ==
    /\ phase = "Multi"
    /\ reads' = reads
    /\ Apply(do_exit(State, "eof"))
    /\ UNCHANGED <<allow_injections, client, history, owners>>

\* input() of the truncation prompt returns an answer
ConfirmRead(a) ==
    /\ phase = "Confirm"
    /\ reads < MaxReads
    /\ reads' = reads + 1
    /\ \E s \in confirm([State EXCEPT !.answer = <<a>>], a) : Apply(s)
    /\ UNCHANGED <<allow_injections, client, history, owners>>

\* input() of the truncation prompt raises EOFError: the last except clause
\* of get_url_contents catches it
ConfirmEOF ==
    /\ phase = "Confirm"
    /\ reads' = reads
    /\ Apply(skip_turn(State, input, webpagetext, "prompt_eof",
                       <<fetch_message("Exception")>>))
    /\ UNCHANGED <<allow_injections, client, history, owners>>

\* KeyboardInterrupt while blocked in input(): no except clause on the way
\* catches it before CmdLineInterpreter.cmdloop, which runs do_exit
Interrupt ==
    /\ phase \in {"Idle", "Multi", "Confirm"}
    /\ reads' = reads
    /\ Apply(do_exit(IF phase = "Idle" THEN begin_turn(State) ELSE State,
                     "interrupt"))
    /\ UNCHANGED <<allow_injections, client, history, owners>>

Next ==
    \/ \E l \in InputLines : CmdLoopRead(l)
    \/ CmdLoopEOF
    \/ \E l \in InputLines : MultiRead(l)
    \/ MultiEOF
    \/ \E a \in AnswerLines : ConfirmRead(a)
    \/ ConfirmEOF
    \/ Interrupt

Spec == Init /\ [][Next]_vars

\* the session started with --allow_injections False
NoInjInit == InitWith(FALSE)

NoInjSpec == NoInjInit /\ [][Next]_vars

\* ------------------------------------------------------------------------
\* Properties of the command-line session.
\* ------------------------------------------------------------------------

ExitTokens == {T_exit, T_quit, T_q}

\* the completion call of this turn raised an exception of the service or of
\* the transport (not an interrupt from the keyboard)
ServiceFailed ==
    svcout # <<>> /\ svcout[1].exc \notin {"none", "KeyboardInterrupt"}

\* the page fetch of this turn raised HTTPError, URLError or another
\* exception (not an interrupt from the keyboard)
FetchFailed == fetchout # <<>> /\ fetchout[1].exc \in FetchErrors

\* the answers that accept the truncation: y and yes in any letter case
YesAnswers ==
    {<<"y">>, <<"Y">>} \cup
    {<<a, b, c>> : a \in {"y", "Y"}, b \in {"e", "E"}, c \in {"s", "S"}}

\* the operator answered the truncation prompt and declined
Declined == answer # <<>> /\ answer[1] \notin YesAnswers

\* the user turns generate_response is to append for a literal message and
\* an optional page text
UserTurns(msg, web) ==
    IF msg = <<>> THEN <<>>
    ELSE IF web = <<>> THEN <<Turn("user", msg)>>
    ELSE <<Turn("user", msg), Turn("user", web[1])>>

\* C1: after a turn whose completion call failed, whatever the failure, the
\* transcript is the transcript before the turn plus the user turns composed
\* in the turn, with no assistant turn; and every later completion call is
\* given a transcript that begins with all of it.
C1_FailedCallKeepsUserTurns ==
    /\ ServiceFailed =>
         /\ messages = submitted[1]
         /\ IsPrefix(before, messages)
         /\ Len(messages) - Len(before) \in {0, 1, 2}
         /\ \A i \in (Len(before) + 1)..Len(messages) :
                messages[i].role = "user"
         /\ failedAt = <<messages>>
    /\ (called /\ failedAt # <<>>) => IsPrefix(failedAt[1], submitted[1])

\* a call that succeeds in a turn after a call that failed, and is given the
\* unanswered user turn and a new one
C1_Witness ==
    /\ failedAt # <<>>
    /\ Len(failedAt[1]) >= 2
    /\ called
    /\ svcout[1].exc = "none"
    /\ Len(submitted[1]) > Len(failedAt[1])
    /\ submitted[1][Len(failedAt[1])].role = "user"

HasSpan(t) ==
    \E i \in 1..Len(t), j \in 1..Len(t) :
        StartsAt(t, T_open, i) /\ StartsAt(t, T_close, j) /\ j >= i + 2

\* C3: for an input without a <<...>> span, get_url_contents is not called
\* and the transcript given to the completion call is the transcript before
\* the turn plus one user turn whose content is the input, unchanged.
C3_NoTagInputUnchanged ==
    (arg # <<>> /\ ~HasSpan(arg[1])) =>
        /\ fetched = <<>>
        /\ fetchout = <<>>
        /\ ~prompted
        /\ called
        /\ submitted[1] = before \o UserTurns(arg[1], <<>>)

\* the input "hi" was submitted as it is and answered
C3_Witness ==
    /\ arg = <<L_hi>>
    /\ event = "ok"
    /\ messages = before \o <<Turn("user", L_hi), Turn("assistant", REPLY)>>

\* the first "<<" that has a ">>" after it, and the nearest such ">>"
FirstOpen(t) ==
    SetMin({ i \in 1..Len(t) :
               /\ StartsAt(t, T_open, i)
               /\ \E j \in (i + 2)..Len(t) : StartsAt(t, T_close, j) })
NearestClose(t, i) ==
    SetMin({ j \in (i + 2)..Len(t) : StartsAt(t, T_close, j) })

\* C4: the address given to get_url_contents is the text between the first
\* "<<" and the nearest ">>" after it, and the stored message is the input
\* with that one span removed.
C4_ShortestSpan ==
    (arg # <<>> /\ HasSpan(arg[1])) =>
        LET t == arg[1]
            i == FirstOpen(t)
            j == NearestClose(t, i)
        IN  /\ fetched = <<SubSeq(t, i + 2, j - 1)>>
            /\ input = SubSeq(t, 1, i - 1) \o SubSeq(t, j + 2, Len(t))

\* C5: when the operator answers the truncation prompt with anything but y
\* or yes, the transcript is what it was before the turn and no completion
\* call is made in the turn.
C5_DeclineAborts ==
    Declined =>
        /\ prompted
        /\ messages = before
        /\ ~called
        /\ svcout = <<>>

\* a truncation declined in a turn that follows an answered one
C5_Witness ==
    /\ Declined
    /\ Len(fetchout[1].text) > maxchar
    /\ Len(before) = 3
    /\ phase = "Idle"

\* webpagetext with every newline turned into a space
Flat(t) == [i \in 1..Len(t) |-> IF t[i] = "\n" THEN " " ELSE t[i]]

\* the operator answered the truncation prompt with y or yes
Accepted == answer # <<>> /\ answer[1] \in YesAnswers

\* C6: when the operator accepts the truncation, the injected text is the
\* preamble followed by the first maxchar characters of the fetched text, so
\* the preamble is not counted against the cap.
C6_PreambleNotCounted ==
    (Accepted /\ called) =>
        webpagetext =
            <<preamble(maxchar) \o Slice(Flat(fetchout[1].text), maxchar)>>

\* C7: when the fetched text, newlines flattened, is no longer than the cap,
\* the operator is not prompted, get_url_contents returns that text as it is,
\* and with a literal message the transcript given to the completion call
\* ends with the message and that text.
C7_ShortPageVerbatim ==
    (fetchout # <<>> /\ fetchout[1].exc = "none"
       /\ Len(fetchout[1].text) <= maxchar) =>
        /\ ~prompted
        /\ answer = <<>>
        /\ webpagetext = <<Flat(fetchout[1].text)>>
        /\ called
        /\ input # <<>> =>
             submitted[1] =
                 before \o <<Turn("user", input),
                             Turn("user", Flat(fetchout[1].text))>>

\* a page no longer than the cap, with a newline in it, injected after the
\* literal message and answered
C7_Witness ==
    /\ fetchout # <<>>
    /\ fetchout[1].text = PAGE_SHORT
    /\ input = L_link_msg
    /\ event = "ok"
    /\ messages[Len(messages) - 1] = Turn("user", <<"a", " ", "b">>)

\* C8: when the page fetch fails with an HTTP error, a URL error or any
\* other exception, nothing is appended to the transcript, no completion
\* call is made in the turn, and the session is back at the prompt with the
\* transcript it had.
C8_FetchFailureAborts ==
    FetchFailed =>
        /\ messages = before
        /\ ~called
        /\ svcout = <<>>
        /\ webpagetext = <<>>
        /\ phase = "Idle"

\* a URL error in a turn that follows an answered one
C8_Witness ==
    /\ FetchFailed
    /\ fetchout[1].exc = "URLError"
    /\ fetched = <<U_x>>
    /\ Len(before) = 3
    /\ messages = before

\* the multi-line loop iterates once per line read, and strips <<multi>>
\* from all it has accumulated at the top of every iteration
RECURSIVE strip_multi(_, _)
strip_multi(s, n) ==
    IF n = 0 THEN s ELSE strip_multi(str_replace(s, T_multi, <<>>), n - 1)

\* what the i-th line read in a multi-line entry contributes to the message
EntryPiece(i) ==
    LET n == Len(typed)
    IN  IF i = n
        THEN str_replace(str_replace(typed[n], T_end, <<>>), T_multi, <<>>)
        ELSE IF i = 1 THEN strip_multi(strip(typed[1]), n - 1)
        ELSE strip_multi(typed[i], n - i + 1)

RECURSIVE JoinFrom(_)
JoinFrom(i) ==
    IF i >= Len(typed) THEN EntryPiece(i)
    ELSE EntryPiece(i) \o T_nl \o JoinFrom(i + 1)

ExampleEntry == <<L_multi1, L_line2, L_end3>>

\* C9 as stated: the lines "<<multi>> line1", "line2", "<<end>> line3" give
\* one submitted user message "line1\nline2\nline3", and no message built by
\* a multi-line entry contains a literal <<multi>> or <<end>>.
C9_MarkersAndBlanksStripped ==
    (arg # <<>> /\ Len(typed) >= 2) =>
        /\ ~Contains(arg[1], T_multi)
        /\ ~Contains(arg[1], T_end)
        /\ typed = ExampleEntry =>
             /\ called
             /\ submitted[1] = Append(before, Turn("user", M_claimed))

\* C9: the lines "<<multi>> line1", "line2", "<<end>> line3" give one
\* submitted user message " line1\nline2\n line3", the blanks next to the
\* markers kept; and the message built by a multi-line entry is the lines
\* joined by newlines, each with its <<multi>> removed and the last one with
\* its <<end>> removed before that.
C9_MultiLineMessage ==
    (arg # <<>> /\ Len(typed) >= 2) =>
        /\ arg[1] = JoinFrom(1)
        /\ typed = ExampleEntry =>
             /\ arg[1] = M_example
             /\ called
             /\ submitted[1] = Append(before, Turn("user", M_example))

\* the three lines of the example entered, submitted as one message and
\* answered
C9_Witness ==
    /\ typed = ExampleEntry
    /\ event = "ok"
    /\ messages = before \o <<Turn("user", M_example),
                              Turn("assistant", REPLY)>>

\* the line read last, at the prompt, in the multi-line loop or as the
\* answer to the truncation prompt
LastRead ==
    IF answer # <<>> THEN answer
    ELSE IF typed # <<>> THEN <<typed[Len(typed)]>>
    ELSE <<>>

\* C10 as stated: wherever the session reads exit, quit or q, the loop ends
\* and no completion call is made.
C10_ExitFromAnyState ==
    (LastRead # <<>> /\ LastRead[1] \in ExitTokens) =>
        (phase = "Exited" /\ ~called)

\* C10: exit, quit or q read at the prompt ends the loop with nothing
\* submitted; read in the multi-line loop it is accumulated and the loop of
\* the session goes on; read at the truncation prompt it declines the
\* truncation and the session is back at the prompt; in no case is a
\* completion call made or the transcript changed.
C10_ExitAtPromptOnly ==
    (LastRead # <<>> /\ LastRead[1] \in ExitTokens) =>
        /\ ~called
        /\ messages = before
        /\ (answer = <<>> /\ Len(typed) = 1) =>
             (phase = "Exited" /\ event \in {"exit_token", "do_exit"})
        /\ (answer = <<>> /\ Len(typed) >= 2) =>
             (phase = "Multi" \/ event \in {"eof", "interrupt"})
        /\ answer # <<>> => (phase = "Idle" /\ event = "declined")

\* quit read at the prompt after an answered turn: the session has ended
C10_Witness ==
    /\ typed = <<T_quit>>
    /\ phase = "Exited"
    /\ event = "exit_token"
    /\ Len(messages) = 3

\* C11: the completion call of a turn is given a transcript to which the
\* turn appended at least one user turn, so that every assistant turn of the
\* transcript comes right after a user turn.
C11_NoEmptyDelta ==
    /\ called =>
         /\ Len(submitted[1]) > Len(before)
         /\ submitted[1][Len(submitted[1])].role = "user"
    /\ \A i \in 2..Len(messages) :
           messages[i].role = "assistant" => messages[i - 1].role = "user"

\* ------------------------------------------------------------------------
\* The web app: webapp() and gradio_response(), called by gradio's
\* ChatInterface for every message sent from a browser session.
\* ------------------------------------------------------------------------

\* the browser sessions that talk to the one server process
Clients == {1, 2}

\* calls served and answers read at the terminal of the server in one run
MaxCalls == 2

W_hello == <<"h","e","l","l","o","!">>
W_how == <<"h","o","w"," ","a","r","e"," ","y","o","u","?">>

\* the messages a browser session may send
WebInputs == {L_hi, W_how, L_link, L_tagonly}

\* the history argument a call may come with: a list of [user, assistant]
\* pairs kept by the caller
Histories == {<<>>, <<<<L_hi, W_hello>>>>}

\* gradio_response: the history argument is not read, generate_response is
\* given webapp_state["messages"]
gradio_response(s, inp, hist) == generate_response(begin_turn(s), inp)

\* the turns a step appended to webapp_state["messages"] belong to the
\* browser session c whose call is being served
owned(s, c) == owners \o [i \in 1..(Len(s.messages) - Len(messages)) |-> c]

\* webapp(): webapp_state is filled from the options
WebInit ==
    /\ phase = "Idle"
    /\ messages = <<Turn("system", SYSMESSAGE)>>
    /\ line = <<>>
    /\ input = <<>>
    /\ webpagetext = <<>>
    /\ reads = 0
    /\ typed = <<>>
    /\ answer = <<>>
    /\ before = <<Turn("system", SYSMESSAGE)>>
    /\ arg = <<>>
    /\ fetched = <<>>
    /\ fetchout = <<>>
    /\ prompted = FALSE
    /\ called = FALSE
    /\ svcout = <<>>
    /\ submitted = <<>>
    /\ failedAt = <<>>
    /\ event = "start"
    /\ printed = <<>>
    /\ allow_injections \in BOOLEAN
    /\ client = 0
    /\ history = <<>>
    /\ owners = <<>>

\* ChatInterface calls gradio_response(x, h) for browser session c; calls
\* are served one at a time, in a worker thread (which a KeyboardInterrupt
\* never reaches)
WebCall(c, x, h) ==
    /\ phase = "Idle"
    /\ reads < MaxCalls
    /\ reads' = reads + 1
    /\ \E s \in gradio_response(State, x, h) :
           /\ s.event # "interrupt"
           /\ Apply(s)
           /\ owners' = owned(s, c)
    /\ client' = c
    /\ history' = h
    /\ UNCHANGED allow_injections

\* input() of the truncation prompt, read from the terminal of the server,
\* returns an answer
WebConfirmRead(a) ==
    /\ phase = "Confirm"
    /\ reads < MaxCalls
    /\ reads' = reads + 1
    /\ \E s \in confirm([State EXCEPT !.answer = <<a>>], a) :
           /\ s.event # "interrupt"
           /\ Apply(s)
           /\ owners' = owned(s, client)
    /\ UNCHANGED <<allow_injections, client, history>>

\* input() of the truncation prompt raises EOFError
WebConfirmEOF ==
    /\ phase = "Confirm"
    /\ reads' = reads
    /\ Apply(skip_turn(State, input, webpagetext, "prompt_eof",
                       <<fetch_message("Exception")>>))
    /\ UNCHANGED <<allow_injections, client, history, owners>>

\* KeyboardInterrupt at the terminal of the server: launch() shuts down
WebInterrupt ==
    /\ phase \in {"Idle", "Confirm"}
    /\ reads' = reads
    /\ Apply([State EXCEPT !.phase = "Exited", !.event = "interrupt",
                           !.printed = <<>>])
    /\ UNCHANGED <<allow_injections, client, history, owners>>

WebNext ==
    \/ \E c \in Clients, x \in WebInputs, h \in Histories : WebCall(c, x, h)
    \/ \E a \in AnswerLines : WebConfirmRead(a)
    \/ WebConfirmEOF
    \/ WebInterrupt

WebSpec == WebInit /\ [][WebNext]_vars

\* ------------------------------------------------------------------------
\* Properties of the web app.
\* ------------------------------------------------------------------------

\* the turns of a history of [user, assistant] pairs, in order
RECURSIVE TurnsOf(_)
TurnsOf(h) ==
    IF h = <<>> THEN <<>>
    ELSE <<Turn("user", h[1][1]), Turn("assistant", h[1][2])>>
           \o TurnsOf(Tail(h))

\* C12: the transcript given to the completion call of a web call with
\* history h and a new input x without a link tag is the system turn, the
\* turns of h in order, and x as a user turn, whatever was called before.
C12_TranscriptFromHistory ==
    (called /\ client # 0 /\ fetched = <<>>) =>
        submitted[1] =
            <<Turn("system", SYSMESSAGE)>> \o TurnsOf(history)
                \o <<Turn("user", arg[1])>>

\* C13: the transcript given to the completion call of a web call holds,
\* after the system turn, no turn that was appended by a call of another
\* browser session.
C13_NoForeignTurns ==
    (called /\ client # 0) =>
        \A i \in 1..(Len(submitted[1]) - 1) : owners[i] = client

\* ------------------------------------------------------------------------
\* Further properties of the command-line session.
\* ------------------------------------------------------------------------

\* the failures of the completion call that have a message of their own
ClassifiedErrors ==
    {"RateLimitError", "InvalidRequestError", "Timeout", "APIConnectionError"}

\* the message of the except clause written for class c
ClauseMessage(c) ==
    ExceptClauses[CHOOSE k \in 1..Len(ExceptClauses) :
                      ExceptClauses[k].cls = c].msg

\* C14: when the completion call fails with a rate-limit, invalid-request,
\* timeout or connection error, submit_to_gpt prints the message written for
\* that kind of failure.
C14_KindSpecificMessage ==
    (svcout # <<>> /\ svcout[1].exc \in ClassifiedErrors) =>
        /\ printed # <<>>
        /\ printed[1] = ClauseMessage(svcout[1].exc)

\* C15: in every state the first turn of the transcript is the system turn
\* made by the constructor and no other turn has the role system; and every
\* step leaves the transcript it found as a prefix of the new one, so no
\* turn is removed, reordered or changed.
C15_TranscriptGrows ==
    /\ [](/\ Len(messages) >= 1
          /\ messages[1] = Turn("system", SYSMESSAGE)
          /\ \A i \in 2..Len(messages) : messages[i].role # "system")
    /\ [][IsPrefix(messages, messages')]_vars

\* two answered turns: the transcript has grown to five turns
C15_Witness ==
    /\ Len(messages) = 5
    /\ Len(before) = 3
    /\ messages[1] = Turn("system", SYSMESSAGE)
    /\ messages[3].role = "assistant"
    /\ messages[5].role = "assistant"
    /\ event = "ok"

\* the address captured this turn is the empty text or has no URL scheme
BadAddress == fetched # <<>> /\ ~HasUrlType(fetched[1])

\* C16 as stated: with an empty or malformed address the turn goes on with
\* the literal message only, which is appended and submitted.
C16_BadAddressProceeds ==
    BadAddress =>
        /\ called
        /\ submitted[1] = before \o UserTurns(input, <<>>)

\* C16: with an address that is empty or has no URL scheme the request
\* cannot be built, the last except clause of get_url_contents sets
\* skip_input, and the turn is aborted: no fetch result, no prompt, nothing
\* appended, no completion call, and the session is back at the prompt.
C16_BadAddressAborts ==
    BadAddress =>
        /\ fetchout = <<[exc |-> "Exception", text |-> <<>>]>>
        /\ webpagetext = <<>>
        /\ ~prompted
        /\ ~called
        /\ messages = before
        /\ event = "fetch_failed"
        /\ printed = <<fetch_message("Exception")>>
        /\ phase = "Idle"

\* "hi <<x>>" entered after an answered turn: the turn was aborted and the
\* literal message "hi " was not appended
C16_Witness ==
    /\ arg = <<L_bad>>
    /\ fetched = <<<<"x">>>>
    /\ input = <<"h", "i", " ">>
    /\ Len(before) = 3
    /\ messages = before
    /\ event = "fetch_failed"

\* C17: the session is exited only by a line that is exactly exit, quit or
\* q, by end of input or by an interrupt; a line that begins with exit and
\* goes on, or the text EOF, is passed to generate_response as a message.
C17_ExitOnlyOnExactToken ==
    /\ phase = "Exited" =>
         \/ event \in {"eof", "interrupt"}
         \/ Len(typed) = 1 /\ typed[1] \in ExitTokens
    /\ (Len(typed) = 1 /\ typed[1] \in {L_exit_now, T_EOF}) =>
         arg = <<typed[1]>>

\* C18: in a turn that reaches the completion call with page text from
\* get_url_contents, the transcript given to the call ends with the literal
\* message, when there is one, and then the page text, each as a user turn.
C18_PageTextAppended ==
    (called /\ webpagetext # <<>>) =>
        submitted[1] =
            before
              \o (IF input # <<>> THEN <<Turn("user", input)>> ELSE <<>>)
              \o <<Turn("user", webpagetext[1])>>

\* C19: in a session with allow_injections false no page is fetched for a
\* link tag and no page text is put into the transcript.
C19_NoFetchWhenDisabled ==
    ~allow_injections =>
        /\ fetched = <<>>
        /\ fetchout = <<>>
        /\ webpagetext = <<>>

\* ------------------------------------------------------------------------
\* pygpt.py, the earlier single-file client: its command-line session.
\* The names of pygpt.py carry the prefix pygpt_ here.
\* ------------------------------------------------------------------------

\* the default system message of generate_response, first sentence (it is
\* the first sentence of SYSMESSAGE too)
pygpt_SYSMESSAGE == SYSMESSAGE

\* maxchar of get_url_contents, a local constant there (15000), scaled to
\* the cap of the modelled session
pygpt_maxchar == maxchar

\* the except clauses of submit_to_gpt, in the order they are written
pygpt_ExceptClauses ==
    <<[cls |-> "OpenAIError", msg |-> "OpenAI API Error"],
      [cls |-> "RateLimitError", msg |-> "Sorry, hit a too-many-users limit"],
      [cls |-> "InvalidRequestError",
       msg |-> "Sorry, hit a too-long-submission limit"],
      [cls |-> "Timeout", msg |-> "Sorry, request apparently timed out"],
      [cls |-> "Exception", msg |-> "An error occurred"]>>

\* submit_to_gpt of pygpt.py
pygpt_submit_to_gpt(msgs, svc) ==
    IF svc.exc = "none"
    THEN [messages |-> Append(msgs, Turn("assistant", svc.reply)),
          ret |-> "pair", raised |-> "none", printed |-> <<>>]
    ELSE LET ks == { k \in 1..Len(pygpt_ExceptClauses) :
                       pygpt_ExceptClauses[k].cls \in Bases(svc.exc) }
         IN  IF ks = {}
             THEN [messages |-> msgs, ret |-> "raise",
                   raised |-> svc.exc, printed |-> <<>>]
             ELSE IF SetMin(ks) < Len(pygpt_ExceptClauses) /\ ~svc.attr
             THEN [messages |-> msgs, ret |-> "raise",
                   raised |-> "AttributeError", printed |-> <<>>]
             ELSE [messages |-> msgs, ret |-> "empty", raised |-> "none",
                   printed |-> <<pygpt_ExceptClauses[SetMin(ks)].msg>>]

\* an exception that no except clause on the way catches: it leaves
\* default, Cmd.cmdloop and CmdLineInterpreter.cmdloop, and the process
\* ends with a traceback
pygpt_uncaught(s, exc, out) ==
    [s EXCEPT !.phase = "Crashed", !.event = exc, !.printed = out]

\* generate_response, lines 209-230 when skip_input is False, for one
\* outcome of the completion call; self.messages is None, so the transcript
\* is made anew from the default system message
pygpt_submitted_turn(s, inp, web, svc) ==
    LET composed == compose(<<Turn("system", pygpt_SYSMESSAGE)>>, inp, web)
        r == pygpt_submit_to_gpt(composed, svc)
        s1 == [s EXCEPT !.messages = r.messages, !.input = inp,
                        !.webpagetext = web, !.called = TRUE,
                        !.before = <<Turn("system", pygpt_SYSMESSAGE)>>,
                        !.svcout = <<svc>>, !.submitted = <<composed>>]
    IN  IF r.ret = "pair"
        THEN [s1 EXCEPT !.phase = "Idle", !.event = "ok", !.printed = <<>>]
        ELSE IF r.ret = "raise" /\ r.raised = "KeyboardInterrupt"
        THEN do_exit(s1, "interrupt")
        ELSE IF r.ret = "raise" THEN pygpt_uncaught(s1, r.raised, r.printed)
        ELSE pygpt_uncaught(s1, "ValueError", r.printed)

pygpt_finish_turn(s, inp, web) ==
    { pygpt_submitted_turn(s, inp, web, svc) : svc \in ServiceOutcomes }

\* generate_response when skip_input is True: return reply, metadata reads
\* names that were never bound
pygpt_skip_turn(s, out) == pygpt_uncaught(s, "UnboundLocalError", out)

\* get_url_contents up to the truncation prompt, and what generate_response
\* does with its result, for one outcome r of the fetch
pygpt_after_fetch(s, inp, r) ==
    IF r.exc = "KeyboardInterrupt" THEN {do_exit(s, "interrupt")}
    ELSE IF r.exc # "none"
    THEN {pygpt_skip_turn(s, <<fetch_message(r.exc)>>)}
    ELSE IF Len(flatten(r.text)) > pygpt_maxchar
    THEN {[s EXCEPT !.phase = "Confirm",
                    !.webpagetext = <<flatten(r.text)>>,
                    !.prompted = TRUE, !.event = "prompt",
                    !.printed = <<"Warning: length of webpagetext">>]}
    ELSE pygpt_finish_turn(s, inp, <<flatten(r.text)>>)

\* generate_response of pygpt.py up to the truncation prompt: group(1) is
\* taken from the result of re.search without a test, and the tag is left
\* in the input
pygpt_generate_response(s, inp) ==
    LET m == re_search(inp)
        s1 == [s EXCEPT !.arg = <<inp>>, !.input = inp]
    IN  IF m = <<>> THEN {pygpt_uncaught(s1, "AttributeError", <<>>)}
        ELSE LET url == m[1].group1
                 s2 == [s1 EXCEPT !.fetched = <<url>>]
             IN  IF url = <<>> THEN pygpt_finish_turn(s1, inp, <<>>)
                 ELSE UNION { pygpt_after_fetch(
                                  [s2 EXCEPT !.fetchout = <<r>>], inp, r) :
                                r \in fetch_results(url) }

\* get_url_contents from the answer to the truncation prompt, then the rest
\* of generate_response
pygpt_confirm(s, a) ==
    IF accepts(a)
    THEN pygpt_finish_turn(
             s, s.input, <<truncated(s.webpagetext[1], pygpt_maxchar)>>)
    ELSE {pygpt_skip_turn(s, <<>>)}

\* CmdLineInterpreter.default of pygpt.py
pygpt_default(s, l) ==
    IF l = T_exit \/ l = T_quit \/ l = T_q THEN {do_exit(s, "exit_token")}
    ELSE pygpt_generate_response(s, l)

\* Cmd.onecmd for a line read at the prompt
pygpt_cmd_line(s, l) ==
    LET h == onecmd(l)
    IN  IF h = "emptyline" THEN {[s EXCEPT !.event = "emptyline"]}
        ELSE IF h = "do_help" THEN {[s EXCEPT !.event = "do_help"]}
        ELSE IF h = "do_exit" \/ h = "do_EOF" THEN {do_exit(s, h)}
        ELSE pygpt_default(s, parseline(l).line)

\* CmdLineInterpreter.__init__ of pygpt.py: self.messages stays None
PyInit ==
    /\ phase = "Idle"
    /\ messages = <<>>
    /\ line = <<>>
    /\ input = <<>>
    /\ webpagetext = <<>>
    /\ reads = 0
    /\ typed = <<>>
    /\ answer = <<>>
    /\ before = <<>>
    /\ arg = <<>>
    /\ fetched = <<>>
    /\ fetchout = <<>>
    /\ prompted = FALSE
    /\ called = FALSE
    /\ svcout = <<>>
    /\ submitted = <<>>
    /\ failedAt = <<>>
    /\ event = "start"
    /\ printed = <<>>
    /\ allow_injections \in BOOLEAN
    /\ client = 0
    /\ history = <<>>
    /\ owners = <<>>

\* Cmd.cmdloop reads a line at the prompt and runs onecmd on it
PyCmdLoopRead(l) ==
    /\ phase = "Idle"
    /\ reads < MaxReads
    /\ reads' = reads + 1
    /\ \E s \in pygpt_cmd_line(
                    [begin_turn(State) EXCEPT !.typed = <<l>>,
                                              !.messages = <<>>,
                                              !.before = <<>>], l) :
           Apply(s)
    /\ UNCHANGED <<allow_injections, client, history, owners>>

\* input() at the prompt raises EOFError: Cmd.cmdloop runs do_EOF
PyCmdLoopEOF ==
    /\ phase = "Idle"
    /\ reads' = reads
    /\ Apply(do_exit(begin_turn(State), "eof"))
    /\ UNCHANGED <<allow_injections, client, history, owners>>

\* input() of the truncation prompt returns an answer
PyConfirmRead(a) ==
    /\ phase = "Confirm"
    /\ reads < MaxReads
    /\ reads' = reads + 1
    /\ \E s \in pygpt_confirm([State EXCEPT !.answer = <<a>>], a) : Apply(s)
    /\ UNCHANGED <<allow_injections, client, history, owners>>

\* input() of the truncation prompt raises EOFError: the last except clause
\* of get_url_contents catches it and sets skip_input
PyConfirmEOF ==
    /\ phase = "Confirm"
    /\ reads' = reads
    /\ Apply(pygpt_skip_turn(State, <<fetch_message("Exception")>>))
    /\ UNCHANGED <<allow_injections, client, history, owners>>

\* KeyboardInterrupt while blocked in input(): CmdLineInterpreter.cmdloop
\* runs do_exit
PyInterrupt ==
    /\ phase \in {"Idle", "Confirm"}
    /\ reads' = reads
    /\ Apply(do_exit(IF phase = "Idle" THEN begin_turn(State) ELSE State,
                     "interrupt"))
    /\ UNCHANGED <<allow_injections, client, history, owners>>

PyNext ==
    \/ \E l \in InputLines : PyCmdLoopRead(l)
    \/ PyCmdLoopEOF
    \/ \E a \in AnswerLines : PyConfirmRead(a)
    \/ PyConfirmEOF
    \/ PyInterrupt

PySpec == PyInit /\ [][PyNext]_vars

\* C20: in pygpt.py an input without a <<...>> span is appended unchanged
\* as one user turn and submitted to the completion service, no address is
\* fetched and no exception is raised before the call.
C20_NoTagInputSubmitted ==
    (arg # <<>> /\ ~HasSpan(arg[1])) =>
        /\ fetched = <<>>
        /\ called
        /\ submitted[1] =
               <<Turn("system", pygpt_SYSMESSAGE), Turn("user", arg[1])>>

====
